---------------------------- MODULE Spec2Model ----------------------------
(***************************************************************************)
(* A model of lingvo/core/base_decoder.py: the abstract decoder contract   *)
(* (BaseDecoder), the beam-search decoder contract (BaseBeamSearchDecoder) *)
(* and their hand-off to the beam-search and sampler engines.              *)
(*                                                                         *)
(* One decoder object is modelled.  Its class (which methods and hooks a   *)
(* subclass supplies) and its parameters are fixed by Init; __init__ and   *)
(* every public method is one action.  A method is an operator that yields *)
(* an effect: the outcome of the call (a returned value or a raised        *)
(* error), the calls it made to overridable methods and engines, in order, *)
(* and the configuration it leaves behind.                                 *)
(***************************************************************************)
EXTENDS Integers, Sequences, FiniteSets

(***************************************************************************)
(* Bounds and input sets                                                   *)
(***************************************************************************)
\* largest hypothesis-count override tried; overrides range over -1..MaxOverride
MaxOverride == 2
\* largest configured num_hyps_per_beam; the configured count is 1..MaxHyps
MaxHyps == 2
\* how many times AddExtraDecodingInfo is applied to its own output
MaxApply == 3

\* the layer's own weights (self.theta), and the weights a caller may pass
SelfTheta == "theta_self"
Thetas == {SelfTheta, "theta_other"}
EncOuts == {"enc_a", "enc_b"}
Targets == {"tgt_a", "tgt_b"}
Seeds == {7, 11}
Overrides == (0 - 1)..MaxOverride
\* the optional argument num_hyps_per_beam_override: omitted, or given
OverrideArgs == {<<>>} \cup {<<o>> : o \in Overrides}
VocabSizes == {32}
WpmModels == {"None", "wpm_prefix"}

\* Params() defaults (target_seq_len 0, target_sos_id 1, target_eos_id 2)
\* and one other setting of each field
SeqLens == {0, 5}
SosIds == {1, 3}
EosIds == {2, 4}

(***************************************************************************)
(* Classes: what a decoder class derives from and what it overrides        *)
(***************************************************************************)
InitHook == "_InitBeamSearchStateCallback"
PreHook == "_PreBeamSearchStepCallback"
PostHook == "_PostBeamSearchStepCallback"
AllHooks == {InitHook, PreHook, PostHook}

\* "abstract": not overridden; "ok": overridden and returns;
\* "raises": overridden and the override raises an error of its own
Modes == {"abstract", "ok", "raises"}

Classes ==
  [base : {"BaseDecoder"}, ComputePredictions : Modes, ComputeLoss : Modes,
   UpdateTargetVocabSize : {"abstract"}, AddExtraDecodingInfo : {"default"},
   hooks : {{}}]
  \cup
  [base : {"BaseBeamSearchDecoder"}, ComputePredictions : {"abstract"},
   ComputeLoss : {"abstract", "raises"}, UpdateTargetVocabSize : {"abstract"},
   AddExtraDecodingInfo : {"default"}, hooks : {AllHooks}]
  \cup
  [base : {"BaseBeamSearchDecoder"}, ComputePredictions : {"ok"},
   ComputeLoss : {"ok"}, UpdateTargetVocabSize : {"abstract"},
   AddExtraDecodingInfo : {"default"}, hooks : SUBSET AllHooks]
  \cup
  [base : {"BaseBeamSearchDecoder"}, ComputePredictions : {"ok"},
   ComputeLoss : {"ok"}, UpdateTargetVocabSize : {"abstract", "ok"},
   AddExtraDecodingInfo : {"default", "overridden"}, hooks : {AllHooks}]

IsBeam(c) == c.base = "BaseBeamSearchDecoder"

(***************************************************************************)
(* Parameters                                                              *)
(***************************************************************************)
SubParams ==
  [target_seq_len : SeqLens, target_sos_id : SosIds, target_eos_id : EosIds,
   num_hyps_per_beam : 1..MaxHyps]

SamplerParams ==
  [target_seq_len : SeqLens, target_sos_id : SosIds, target_eos_id : EosIds]

BaseDecoderParams == [packed_input : {FALSE}]

BaseBeamSearchDecoderParams ==
  [packed_input : {FALSE}, target_sos_id : SosIds, target_eos_id : EosIds,
   target_seq_len : SeqLens, beam_search : SubParams,
   target_sequence_sampler : SamplerParams]

ParamsOf(c) ==
  IF IsBeam(c) THEN BaseBeamSearchDecoderParams ELSE BaseDecoderParams

(***************************************************************************)
(* Outcomes of a call                                                      *)
(***************************************************************************)
Return(v) == [kind |-> "return", value |-> v, error |-> "none"]
Raise(e) == [kind |-> "raise", value |-> "none", error |-> e]
NoOutcome == [kind |-> "none", value |-> "none", error |-> "none"]

Call(fn, a, out) == [fn |-> fn, args |-> a, out |-> out]
\* what one call does: its outcome, the calls it made in order, and the
\* configuration and children it leaves behind
Effect(out, cs, cfg, kids) ==
  [ret |-> out, calls |-> cs, p |-> cfg, children |-> kids]

VARIABLES cls, p, children, self_theta, built, op, args, ret, calls, chain

vars == <<cls, p, children, self_theta, built, op, args, ret, calls, chain>>

NoChain == [orig |-> "none", n |-> 0]

Init ==
  /\ cls \in Classes
  /\ p \in ParamsOf(cls)
  /\ children = <<>>
  /\ self_theta = "none"
  /\ built = FALSE
  /\ op = "none"
  /\ args = <<>>
  /\ ret = NoOutcome
  /\ calls = <<>>
  /\ chain = NoChain

(***************************************************************************)
(* BaseDecoder                                                             *)
(***************************************************************************)
\* DecoderOutput = namedtuple('DecoderOutput',
\*                            ['metrics', 'predictions', 'per_sequence'])
DecoderOutput_swapped(metrics, predictions, per_sequence) ==
  [metrics |-> per_sequence, predictions |-> predictions,
   per_sequence |-> metrics]

DecoderOutput(metrics, predictions, per_sequence) ==
  [metrics |-> metrics, predictions |-> predictions,
   per_sequence |-> per_sequence]

\* classmethod UpdateTargetVocabSize(cls, p, vocab_size, wpm_model=None):
\* BaseDecoder and BaseBeamSearchDecoder each define it, and each raises
UpdateTargetVocabSize(c, prm, vocab_size, wpm_model) ==
  IF c.UpdateTargetVocabSize = "ok"
  THEN Return([params |-> prm, vocab_size |-> vocab_size,
               wpm_model |-> wpm_model])
  ELSE IF IsBeam(c)
       THEN Raise("NotImplementedError")
       ELSE Raise("NotImplementedError")

ComputePredictions_returnsNone(c, th, enc, tgt) ==
  CASE c.ComputePredictions = "abstract" -> Return("None")
    [] c.ComputePredictions = "ok" ->
         Return([tag |-> "predictions", theta |-> th,
                 encoder_outputs |-> enc, targets |-> tgt])
    [] c.ComputePredictions = "raises" -> Raise("SubclassError")

\* self.ComputePredictions(theta, encoder_outputs, targets): the base
\* method raises; an override returns predictions computed from its
\* arguments, or fails with an error of its own
ComputePredictions(c, th, enc, tgt) ==
  CASE c.ComputePredictions = "abstract" -> Raise("NotImplementedError")
    [] c.ComputePredictions = "ok" ->
         Return([tag |-> "predictions", theta |-> th,
                 encoder_outputs |-> enc, targets |-> tgt])
    [] c.ComputePredictions = "raises" -> Raise("SubclassError")

\* self.ComputeLoss(theta, predictions, targets): the base method raises;
\* an override returns the pair (metrics, per_sequence)
ComputeLoss(c, th, predictions, tgt) ==
  CASE c.ComputeLoss = "abstract" -> Raise("NotImplementedError")
    [] c.ComputeLoss = "ok" ->
         Return(<<[tag |-> "metrics", theta |-> th,
                   predictions |-> predictions, targets |-> tgt],
                  [tag |-> "per_sequence", theta |-> th,
                   predictions |-> predictions, targets |-> tgt]>>)
    [] c.ComputeLoss = "raises" -> Raise("SubclassError")

\* a slip: the loss failure is swallowed and the predictions handed back
FProp_partial(c, cfg, kids, th, enc, tgt) ==
  LET r1 == ComputePredictions(c, th, enc, tgt)
      call1 == Call("ComputePredictions", <<th, enc, tgt>>, r1)
  IN  IF r1.kind = "raise"
      THEN Effect(r1, <<call1>>, cfg, kids)
      ELSE LET r2 == ComputeLoss(c, th, r1.value, tgt)
               call2 == Call("ComputeLoss", <<th, r1.value, tgt>>, r2)
           IN  IF r2.kind = "raise"
               THEN Effect(Return(DecoderOutput("None", r1.value, "None")),
                           <<call1, call2>>, cfg, kids)
               ELSE Effect(Return(DecoderOutput(r2.value[1], r1.value,
                                                r2.value[2])),
                           <<call1, call2>>, cfg, kids)

\* FProp(self, theta, encoder_outputs, targets); an exception raised by
\* either call leaves FProp at once
FProp(c, cfg, kids, th, enc, tgt) ==
  LET r1 == ComputePredictions(c, th, enc, tgt)
      call1 == Call("ComputePredictions", <<th, enc, tgt>>, r1)
  IN  IF r1.kind = "raise"
      THEN Effect(r1, <<call1>>, cfg, kids)
      ELSE LET r2 == ComputeLoss(c, th, r1.value, tgt)
               call2 == Call("ComputeLoss", <<th, r1.value, tgt>>, r2)
           IN  IF r2.kind = "raise"
               THEN Effect(r2, <<call1, call2>>, cfg, kids)
               ELSE Effect(Return(DecoderOutput(r2.value[1], r1.value,
                                                r2.value[2])),
                           <<call1, call2>>, cfg, kids)

(***************************************************************************)
(* The framework and the two engines                                       *)
(***************************************************************************)
\* self.CreateChild(name, params): registers a child built from a copy of
\* the given params
CreateChild(kids, name, params) ==
  Append(kids, [name |-> name, params |-> params])

HasChild(kids, name) == \E i \in 1..Len(kids) : kids[i].name = name

ChildParams(kids, name) ==
  kids[CHOOSE i \in 1..Len(kids) : kids[i].name = name].params

\* the beam-search engine: a positive override replaces the configured
\* hypotheses-per-beam count for this call; otherwise the configured count
\* is used
BeamSearchHelper_BeamSearchDecode(hp, th, enc, override, init_cb, pre_cb, post_cb) ==
  Return([tag |-> "BeamSearchDecodeOutput", theta |-> th,
          encoder_outputs |-> enc,
          num_hyps_per_beam |-> IF override > 0 THEN override
                                ELSE hp.num_hyps_per_beam,
          target_seq_len |-> hp.target_seq_len,
          callbacks |-> <<init_cb, pre_cb, post_cb>>])

\* the sampler engine: Sample(...) -> {ids, paddings}
TargetSequenceSampler_Sample(sp, th, enc, seed, init_cb, pre_cb, post_cb) ==
  Return([ids |-> [tag |-> "ids", theta |-> th, encoder_outputs |-> enc,
                   random_seed |-> seed,
                   target_seq_len |-> sp.target_seq_len,
                   callbacks |-> <<init_cb, pre_cb, post_cb>>],
          paddings |-> [tag |-> "paddings", theta |-> th,
                        encoder_outputs |-> enc, random_seed |-> seed,
                        target_seq_len |-> sp.target_seq_len]])

(***************************************************************************)
(* BaseBeamSearchDecoder                                                   *)
(***************************************************************************)
\* a slip: the sampler child is created before target_eos_id is copied
BaseBeamSearchDecoder_init_late(c, params) ==
  LET p1 == [params EXCEPT !.beam_search.target_seq_len =
                             params.target_seq_len]
      p2 == [p1 EXCEPT !.beam_search.target_sos_id = p1.target_sos_id]
      p3 == [p2 EXCEPT !.beam_search.target_eos_id = p2.target_eos_id]
      k1 == CreateChild(<<>>, "beam_search", p3.beam_search)
      p4 == [p3 EXCEPT !.target_sequence_sampler.target_seq_len =
                         p3.target_seq_len]
      p5 == [p4 EXCEPT !.target_sequence_sampler.target_sos_id =
                         p4.target_sos_id]
      k2 == CreateChild(k1, "target_sequence_sampler",
                        p5.target_sequence_sampler)
      p6 == [p5 EXCEPT !.target_sequence_sampler.target_eos_id =
                         p5.target_eos_id]
  IN  Effect(Return("None"), <<>>, p6, k2)

\* __init__(self, params), statement by statement
BaseBeamSearchDecoder_init(c, params) ==
  LET p1 == [params EXCEPT !.beam_search.target_seq_len =
                             params.target_seq_len]
      p2 == [p1 EXCEPT !.beam_search.target_sos_id = p1.target_sos_id]
      p3 == [p2 EXCEPT !.beam_search.target_eos_id = p2.target_eos_id]
      k1 == CreateChild(<<>>, "beam_search", p3.beam_search)
      p4 == [p3 EXCEPT !.target_sequence_sampler.target_seq_len =
                         p3.target_seq_len]
      p5 == [p4 EXCEPT !.target_sequence_sampler.target_sos_id =
                         p4.target_sos_id]
      p6 == [p5 EXCEPT !.target_sequence_sampler.target_eos_id =
                         p5.target_eos_id]
      k2 == CreateChild(k1, "target_sequence_sampler",
                        p6.target_sequence_sampler)
  IN  Effect(Return("None"), <<>>, p6, k2)

AddExtraDecodingInfo_tagged(c, cfg, kids, enc, tgt) ==
  Effect(Return("enc_extra"), <<>>, cfg, kids)

\* AddExtraDecodingInfo(self, encoder_outputs, targets): return
\* encoder_outputs; an override attaches extra decoding state
AddExtraDecodingInfo(c, cfg, kids, enc, tgt) ==
  IF c.AddExtraDecodingInfo = "default"
  THEN Effect(Return(enc), <<>>, cfg, kids)
  ELSE Effect(Return("enc_extra"), <<>>, cfg, kids)

\* the attribute reference self.<name> for a hook this file does not
\* define: found when the subclass defines it, an AttributeError otherwise
GetAttr(c, name) ==
  IF name \in c.hooks THEN Return(name) ELSE Raise("AttributeError")

OverrideOf(ovArg) == IF ovArg = <<>> THEN 0 ELSE ovArg[1]

\* a slip: the pre-step and post-step callbacks change places
BeamSearchDecodeWithTheta_swapped(c, cfg, kids, th, enc, ovArg) ==
  LET ov == OverrideOf(ovArg)
      a4 == GetAttr(c, InitHook)
      a5 == GetAttr(c, PreHook)
      a6 == GetAttr(c, PostHook)
  IN  IF a4.kind = "raise" THEN Effect(a4, <<>>, cfg, kids)
      ELSE IF a5.kind = "raise" THEN Effect(a5, <<>>, cfg, kids)
      ELSE IF a6.kind = "raise" THEN Effect(a6, <<>>, cfg, kids)
      ELSE LET out == BeamSearchHelper_BeamSearchDecode(
                        ChildParams(kids, "beam_search"), th, enc, ov,
                        a4.value, a6.value, a5.value)
           IN  Effect(out,
                      <<Call("beam_search.BeamSearchDecode",
                             <<th, enc, ov, a4.value, a6.value, a5.value>>,
                             out)>>,
                      cfg, kids)

\* a slip: the override is not handed on
BeamSearchDecodeWithTheta_dropsOverride(c, cfg, kids, th, enc, ovArg) ==
  LET a4 == GetAttr(c, InitHook)
      a5 == GetAttr(c, PreHook)
      a6 == GetAttr(c, PostHook)
  IN  IF a4.kind = "raise" THEN Effect(a4, <<>>, cfg, kids)
      ELSE IF a5.kind = "raise" THEN Effect(a5, <<>>, cfg, kids)
      ELSE IF a6.kind = "raise" THEN Effect(a6, <<>>, cfg, kids)
      ELSE LET out == BeamSearchHelper_BeamSearchDecode(
                        ChildParams(kids, "beam_search"), th, enc, 0,
                        a4.value, a5.value, a6.value)
           IN  Effect(out,
                      <<Call("beam_search.BeamSearchDecode",
                             <<th, enc, 0, a4.value, a5.value, a6.value>>,
                             out)>>,
                      cfg, kids)

\* a slip: a positive override is written into the configuration
BeamSearchDecodeWithTheta_persists(c, cfg, kids, th, enc, ovArg) ==
  LET ov == OverrideOf(ovArg)
      a4 == GetAttr(c, InitHook)
      a5 == GetAttr(c, PreHook)
      a6 == GetAttr(c, PostHook)
      cfg2 == IF ov > 0
              THEN [cfg EXCEPT !.beam_search.num_hyps_per_beam = ov]
              ELSE cfg
  IN  IF a4.kind = "raise" THEN Effect(a4, <<>>, cfg, kids)
      ELSE IF a5.kind = "raise" THEN Effect(a5, <<>>, cfg, kids)
      ELSE IF a6.kind = "raise" THEN Effect(a6, <<>>, cfg, kids)
      ELSE LET out == BeamSearchHelper_BeamSearchDecode(
                        ChildParams(kids, "beam_search"), th, enc, ov,
                        a4.value, a5.value, a6.value)
           IN  Effect(out,
                      <<Call("beam_search.BeamSearchDecode",
                             <<th, enc, ov, a4.value, a5.value, a6.value>>,
                             out)>>,
                      cfg2, kids)

\* BeamSearchDecodeWithTheta(self, theta, encoder_outputs,
\*                           num_hyps_per_beam_override=0):
\* the arguments are evaluated left to right, then the engine is called
\* and its result returned
BeamSearchDecodeWithTheta(c, cfg, kids, th, enc, ovArg) ==
  LET ov == OverrideOf(ovArg)
      a4 == GetAttr(c, InitHook)
      a5 == GetAttr(c, PreHook)
      a6 == GetAttr(c, PostHook)
  IN  IF a4.kind = "raise" THEN Effect(a4, <<>>, cfg, kids)
      ELSE IF a5.kind = "raise" THEN Effect(a5, <<>>, cfg, kids)
      ELSE IF a6.kind = "raise" THEN Effect(a6, <<>>, cfg, kids)
      ELSE LET out == BeamSearchHelper_BeamSearchDecode(
                        ChildParams(kids, "beam_search"), th, enc, ov,
                        a4.value, a5.value, a6.value)
           IN  Effect(out,
                      <<Call("beam_search.BeamSearchDecode",
                             <<th, enc, ov, a4.value, a5.value, a6.value>>,
                             out)>>,
                      cfg, kids)

\* BeamSearchDecode(self, encoder_outputs, num_hyps_per_beam_override=0)
BeamSearchDecode(c, cfg, kids, theta, enc, ovArg) ==
  BeamSearchDecodeWithTheta(c, cfg, kids, theta, enc, <<OverrideOf(ovArg)>>)

\* a slip: the seed is replaced by a fixed one
SampleTargetSequences_fixedSeed(c, cfg, kids, th, enc, seed) ==
  LET a4 == GetAttr(c, InitHook)
      a5 == GetAttr(c, PreHook)
      a6 == GetAttr(c, PostHook)
  IN  IF a4.kind = "raise" THEN Effect(a4, <<>>, cfg, kids)
      ELSE IF a5.kind = "raise" THEN Effect(a5, <<>>, cfg, kids)
      ELSE IF a6.kind = "raise" THEN Effect(a6, <<>>, cfg, kids)
      ELSE LET out == TargetSequenceSampler_Sample(
                        ChildParams(kids, "target_sequence_sampler"), th,
                        enc, 0, a4.value, a5.value, a6.value)
           IN  Effect(out,
                      <<Call("target_sequence_sampler.Sample",
                             <<th, enc, 0, a4.value, a5.value, a6.value>>,
                             out)>>,
                      cfg, kids)

\* SampleTargetSequences(self, theta, encoder_outputs, random_seed)
SampleTargetSequences(c, cfg, kids, th, enc, seed) ==
  LET a4 == GetAttr(c, InitHook)
      a5 == GetAttr(c, PreHook)
      a6 == GetAttr(c, PostHook)
  IN  IF a4.kind = "raise" THEN Effect(a4, <<>>, cfg, kids)
      ELSE IF a5.kind = "raise" THEN Effect(a5, <<>>, cfg, kids)
      ELSE IF a6.kind = "raise" THEN Effect(a6, <<>>, cfg, kids)
      ELSE LET out == TargetSequenceSampler_Sample(
                        ChildParams(kids, "target_sequence_sampler"), th,
                        enc, seed, a4.value, a5.value, a6.value)
           IN  Effect(out,
                      <<Call("target_sequence_sampler.Sample",
                             <<th, enc, seed, a4.value, a5.value, a6.value>>,
                             out)>>,
                      cfg, kids)

(***************************************************************************)
(* Actions: one per constructor or public method                           *)
(***************************************************************************)
\* the call `name(a)` took effect e
Do(name, a, e) ==
  /\ op' = name
  /\ args' = a
  /\ ret' = e.ret
  /\ calls' = e.calls
  /\ p' = e.p
  /\ children' = e.children

\* the decoder is instantiated from its params; the layer gets its weights
Construct ==
  /\ ~built
  /\ built' = TRUE
  /\ self_theta' = SelfTheta
  /\ Do("__init__", [params |-> p],
        IF IsBeam(cls) THEN BaseBeamSearchDecoder_init(cls, p)
        ELSE Effect(Return("None"), <<>>, p, children))
  /\ chain' = NoChain
  /\ UNCHANGED cls

CallUpdateTargetVocabSize ==
  /\ \E v \in VocabSizes, w \in WpmModels :
       Do("UpdateTargetVocabSize",
          [p |-> p, vocab_size |-> v, wpm_model |-> w],
          Effect(UpdateTargetVocabSize(cls, p, v, w), <<>>, p, children))
  /\ chain' = NoChain
  /\ UNCHANGED <<cls, self_theta, built>>

CallComputePredictions ==
  /\ built
  /\ \E th \in Thetas, enc \in EncOuts, tgt \in Targets :
       Do("ComputePredictions",
          [theta |-> th, encoder_outputs |-> enc, targets |-> tgt],
          Effect(ComputePredictions(cls, th, enc, tgt), <<>>, p, children))
  /\ chain' = NoChain
  /\ UNCHANGED <<cls, self_theta, built>>

CallComputeLoss ==
  /\ built
  /\ \E th \in Thetas, pr \in {"pred_a", "pred_b"}, tgt \in Targets :
       Do("ComputeLoss",
          [theta |-> th, predictions |-> pr, targets |-> tgt],
          Effect(ComputeLoss(cls, th, pr, tgt), <<>>, p, children))
  /\ chain' = NoChain
  /\ UNCHANGED <<cls, self_theta, built>>

CallFProp ==
  /\ built
  /\ \E th \in Thetas, enc \in EncOuts, tgt \in Targets :
       Do("FProp",
          [theta |-> th, encoder_outputs |-> enc, targets |-> tgt],
          FProp(cls, p, children, th, enc, tgt))
  /\ chain' = NoChain
  /\ UNCHANGED <<cls, self_theta, built>>

\* the caller passes fresh encoder outputs, or (up to MaxApply times in a
\* row) what the previous AddExtraDecodingInfo returned
CallAddExtraDecodingInfo ==
  /\ built
  /\ IsBeam(cls)
  /\ \E tgt \in Targets :
       \/ \E enc \in EncOuts :
            /\ Do("AddExtraDecodingInfo",
                  [encoder_outputs |-> enc, targets |-> tgt],
                  AddExtraDecodingInfo(cls, p, children, enc, tgt))
            /\ chain' = [orig |-> enc, n |-> 1]
       \/ /\ op = "AddExtraDecodingInfo"
          /\ chain.n < MaxApply
          /\ Do("AddExtraDecodingInfo",
                [encoder_outputs |-> ret.value, targets |-> tgt],
                AddExtraDecodingInfo(cls, p, children, ret.value, tgt))
          /\ chain' = [chain EXCEPT !.n = chain.n + 1]
  /\ UNCHANGED <<cls, self_theta, built>>

CallBeamSearchDecode ==
  /\ built
  /\ IsBeam(cls)
  /\ \E enc \in EncOuts, ovArg \in OverrideArgs :
       Do("BeamSearchDecode",
          [encoder_outputs |-> enc, override |-> ovArg],
          BeamSearchDecode(cls, p, children, self_theta, enc, ovArg))
  /\ chain' = NoChain
  /\ UNCHANGED <<cls, self_theta, built>>

CallBeamSearchDecodeWithTheta ==
  /\ built
  /\ IsBeam(cls)
  /\ \E th \in Thetas, enc \in EncOuts, ovArg \in OverrideArgs :
       Do("BeamSearchDecodeWithTheta",
          [theta |-> th, encoder_outputs |-> enc, override |-> ovArg],
          BeamSearchDecodeWithTheta(cls, p, children, th, enc, ovArg))
  /\ chain' = NoChain
  /\ UNCHANGED <<cls, self_theta, built>>

CallSampleTargetSequences ==
  /\ built
  /\ IsBeam(cls)
  /\ \E th \in Thetas, enc \in EncOuts, seed \in Seeds :
       Do("SampleTargetSequences",
          [theta |-> th, encoder_outputs |-> enc, random_seed |-> seed],
          SampleTargetSequences(cls, p, children, th, enc, seed))
  /\ chain' = NoChain
  /\ UNCHANGED <<cls, self_theta, built>>

Next ==
  \/ Construct
  \/ CallUpdateTargetVocabSize
  \/ CallComputePredictions
  \/ CallComputeLoss
  \/ CallFProp
  \/ CallAddExtraDecodingInfo
  \/ CallBeamSearchDecode
  \/ CallBeamSearchDecodeWithTheta
  \/ CallSampleTargetSequences

Spec == Init /\ [][Next]_vars

(***************************************************************************)
(* Properties                                                              *)
(***************************************************************************)
NotImplemented(r) == r.kind = "raise" /\ r.error = "NotImplementedError"

Triple(q) == <<q.target_seq_len, q.target_sos_id, q.target_eos_id>>

CallbackTriple == <<InitHook, PreHook, PostHook>>

SuppliesHooks == cls.hooks = AllHooks

BeamOps ==
  {"BeamSearchDecode", "BeamSearchDecodeWithTheta", "SampleTargetSequences"}

\* C1: ComputePredictions, ComputeLoss and UpdateTargetVocabSize, called on
\* a class that does not override them (BaseDecoder or
\* BaseBeamSearchDecoder), raise the "not implemented" error for every
\* argument combination; nothing is returned and nothing else is called.
C1_BaseMethodsRaise ==
  /\ (op = "ComputePredictions" /\ cls.ComputePredictions = "abstract")
       => (NotImplemented(ret) /\ calls = <<>>)
  /\ (op = "ComputeLoss" /\ cls.ComputeLoss = "abstract")
       => (NotImplemented(ret) /\ calls = <<>>)
  /\ (op = "UpdateTargetVocabSize" /\ cls.UpdateTargetVocabSize = "abstract")
       => (NotImplemented(ret) /\ calls = <<>>)

C1_Witness ==
  /\ op = "ComputePredictions"
  /\ cls.ComputePredictions = "abstract"
  /\ IsBeam(cls)
  /\ args.theta # self_theta
  /\ ret.kind = "raise"

\* C2: when ComputePredictions and ComputeLoss both succeed, FProp calls
\* ComputePredictions(theta, encoder_outputs, targets) once, then
\* ComputeLoss(theta, predictions, targets) once with the predictions just
\* returned, and returns DecoderOutput(metrics, predictions, per_sequence)
\* built from exactly those results.
C2_FPropComposes ==
  (op = "FProp" /\ cls.ComputePredictions = "ok" /\ cls.ComputeLoss = "ok")
    => /\ Len(calls) = 2
       /\ calls[1].fn = "ComputePredictions"
       /\ calls[1].args = <<args.theta, args.encoder_outputs, args.targets>>
       /\ calls[1].out.kind = "return"
       /\ calls[2].fn = "ComputeLoss"
       /\ calls[2].args = <<args.theta, calls[1].out.value, args.targets>>
       /\ calls[2].out.kind = "return"
       /\ ret.kind = "return"
       /\ DOMAIN ret.value = {"metrics", "predictions", "per_sequence"}
       /\ ret.value.predictions = calls[1].out.value
       /\ ret.value.metrics = calls[2].out.value[1]
       /\ ret.value.per_sequence = calls[2].out.value[2]

C2_Witness ==
  /\ op = "FProp"
  /\ cls.ComputePredictions = "ok"
  /\ cls.ComputeLoss = "ok"
  /\ ret.kind = "return"
  /\ ret.value.metrics.tag = "metrics"
  /\ ret.value.predictions.targets = "tgt_b"

\* C3: after a BaseBeamSearchDecoder is constructed, whatever its
\* sub-configurations held before, both children were created from a
\* sub-configuration whose target_seq_len, target_sos_id and target_eos_id
\* equal the decoder's own (which construction leaves as given), and the
\* decoder, beam_search and target_sequence_sampler configurations agree on
\* all three.
C3_PropagatesTargetFields ==
  (built /\ IsBeam(cls))
    => /\ Len(children) = 2
       /\ children[1].name = "beam_search"
       /\ children[2].name = "target_sequence_sampler"
       /\ Triple(children[1].params) = Triple(p)
       /\ Triple(children[2].params) = Triple(p)
       /\ Triple(p.beam_search) = Triple(p)
       /\ Triple(p.target_sequence_sampler) = Triple(p)
       /\ (op = "__init__" => Triple(p) = Triple(args.params))

C3_Witness ==
  /\ op = "__init__"
  /\ IsBeam(cls)
  /\ \A f \in {"target_seq_len", "target_sos_id", "target_eos_id"} :
       /\ args.params.beam_search[f] # args.params[f]
       /\ args.params.target_sequence_sampler[f] # args.params[f]
  /\ Triple(p) = <<5, 3, 4>>

\* C4: for a class that supplies the three hooks,
\* BeamSearchDecodeWithTheta(theta, encoder_outputs, override) makes exactly
\* one call, beam_search.BeamSearchDecode(theta, encoder_outputs, override,
\* init, pre-step, post-step), with the override as given (0 when omitted,
\* zero and negative values included), and returns that call's result
\* unchanged; BeamSearchDecode(encoder_outputs, override) is the same call
\* with the layer's own theta.
C4_BeamSearchPassThrough ==
  (SuppliesHooks /\ op \in {"BeamSearchDecode", "BeamSearchDecodeWithTheta"})
    => /\ Len(calls) = 1
       /\ calls[1].fn = "beam_search.BeamSearchDecode"
       /\ calls[1].args =
            <<IF op = "BeamSearchDecode" THEN self_theta ELSE args.theta,
              args.encoder_outputs,
              IF args.override = <<>> THEN 0 ELSE args.override[1],
              InitHook, PreHook, PostHook>>
       /\ ret = calls[1].out

C4_Witness ==
  /\ SuppliesHooks
  /\ op = "BeamSearchDecodeWithTheta"
  /\ args.theta # self_theta
  /\ args.override = <<0 - 1>>
  /\ ret.kind = "return"

\* C5: in a beam-search decode by a class that supplies the hooks, a
\* positive override is the hypotheses-per-beam count of this call and a
\* zero, negative or omitted override leaves the configured count in use;
\* the call leaves the configured count (in the decoder's params and in the
\* engine's) as it was, so the next call starts from the configured count.
C5_OverrideThisCallOnly ==
  [][(SuppliesHooks /\ op' \in {"BeamSearchDecode", "BeamSearchDecodeWithTheta"})
       => LET configured == p.beam_search.num_hyps_per_beam
              ov == IF args'.override = <<>> THEN 0 ELSE args'.override[1]
          IN  /\ ChildParams(children, "beam_search").num_hyps_per_beam
                   = configured
              /\ ret'.kind = "return"
              /\ ret'.value.num_hyps_per_beam =
                   IF ov > 0 THEN ov ELSE configured
              /\ p'.beam_search.num_hyps_per_beam = configured
              /\ ChildParams(children', "beam_search").num_hyps_per_beam
                   = configured]_vars

C5_Witness ==
  /\ SuppliesHooks
  /\ op = "BeamSearchDecode"
  /\ args.override # <<>>
  /\ args.override[1] > 0
  /\ args.override[1] # p.beam_search.num_hyps_per_beam
  /\ ret.kind = "return"
  /\ ret.value.num_hyps_per_beam = args.override[1]

\* C6: for a class that supplies the three hooks,
\* SampleTargetSequences(theta, encoder_outputs, random_seed) makes exactly
\* one call, target_sequence_sampler.Sample(theta, encoder_outputs,
\* random_seed, init, pre-step, post-step), with the callbacks the
\* beam-search engine is given, and returns its {ids, paddings} unchanged;
\* in no case does it call the beam-search engine.
C6_SamplePassThrough ==
  /\ (SuppliesHooks /\ op = "SampleTargetSequences")
       => /\ Len(calls) = 1
          /\ calls[1].fn = "target_sequence_sampler.Sample"
          /\ calls[1].args =
               <<args.theta, args.encoder_outputs, args.random_seed>>
               \o CallbackTriple
          /\ ret = calls[1].out
          /\ ret.kind = "return"
          /\ DOMAIN ret.value = {"ids", "paddings"}
  /\ (SuppliesHooks /\ op \in {"BeamSearchDecode", "BeamSearchDecodeWithTheta"})
       => SubSeq(calls[1].args, 4, 6) = CallbackTriple
  /\ op = "SampleTargetSequences"
       => \A i \in 1..Len(calls) : calls[i].fn # "beam_search.BeamSearchDecode"

C6_Witness ==
  /\ SuppliesHooks
  /\ op = "SampleTargetSequences"
  /\ args.theta # self_theta
  /\ args.random_seed = 11
  /\ ret.kind = "return"
  /\ ret.value.ids.random_seed = 11

\* C7: AddExtraDecodingInfo, when not overridden, returns its
\* encoder_outputs argument for every targets value, so after any number of
\* applications to its own output the result is the original
\* encoder_outputs; it changes no decoder state and calls nothing.
C7_AddExtraIdentity ==
  [][(op' = "AddExtraDecodingInfo" /\ cls.AddExtraDecodingInfo = "default")
       => /\ ret'.kind = "return"
          /\ ret'.value = args'.encoder_outputs
          /\ ret'.value = chain'.orig
          /\ calls' = <<>>
          /\ UNCHANGED <<cls, p, children, self_theta, built>>]_vars

C7_Witness ==
  /\ op = "AddExtraDecodingInfo"
  /\ cls.AddExtraDecodingInfo = "default"
  /\ chain.n >= 2
  /\ ret.value = "enc_b"

\* C8: the only error this layer raises is "not implemented"; in
\* particular a beam-search decode or a sampling by a class that lacks one
\* of the three hooks fails with "not implemented".
C8_OnlyNotImplemented ==
  /\ (ret.kind = "raise" /\ ret.error # "SubclassError")
       => ret.error = "NotImplementedError"
  /\ (op \in BeamOps /\ ~SuppliesHooks) => NotImplemented(ret)

\* C9: the configuration is written only by the six sub-configuration
\* assignments of BaseBeamSearchDecoder.__init__; once the decoder is
\* constructed no call changes its params, its children, its theta or its
\* class.
C9_ConfigReadOnly ==
  [][/\ built => UNCHANGED <<cls, p, children, self_theta, built>>
     /\ (p' # p) =>
          /\ ~built
          /\ op' = "__init__"
          /\ IsBeam(cls)
          /\ p' = [p EXCEPT
                     !.beam_search =
                        [p.beam_search EXCEPT
                           !.target_seq_len = p'.beam_search.target_seq_len,
                           !.target_sos_id = p'.beam_search.target_sos_id,
                           !.target_eos_id = p'.beam_search.target_eos_id],
                     !.target_sequence_sampler =
                        [target_seq_len |->
                           p'.target_sequence_sampler.target_seq_len,
                         target_sos_id |->
                           p'.target_sequence_sampler.target_sos_id,
                         target_eos_id |->
                           p'.target_sequence_sampler.target_eos_id]]]_vars

C9_Witness ==
  /\ built
  /\ SuppliesHooks
  /\ op = "BeamSearchDecodeWithTheta"
  /\ args.override = <<MaxOverride>>
  /\ ret.kind = "return"
  /\ p.beam_search.num_hyps_per_beam = 1
  /\ ChildParams(children, "beam_search") = p.beam_search

\* C10: a failure inside FProp reaches the caller as it is, with no retry
\* and no DecoderOutput: when ComputePredictions raises, ComputeLoss is not
\* called; when ComputeLoss raises, FProp raises that error and returns no
\* partial result; FProp on a class with the base ComputePredictions raises
\* "not implemented".
C10_FPropPropagatesFailure ==
  op = "FProp"
    => /\ Len(calls) \in {1, 2}
       /\ calls[1].fn = "ComputePredictions"
       /\ (calls[1].out.kind = "raise")
            => (Len(calls) = 1 /\ ret.kind = "raise"
                /\ ret.error = calls[1].out.error)
       /\ (Len(calls) = 2)
            => /\ calls[2].fn = "ComputeLoss"
               /\ (calls[2].out.kind = "raise")
                    => (ret.kind = "raise"
                        /\ ret.error = calls[2].out.error)
       /\ (cls.ComputePredictions # "ok" \/ cls.ComputeLoss # "ok")
            => ret.kind = "raise"
       /\ (cls.ComputePredictions = "abstract") => NotImplemented(ret)

C10_Witness ==
  /\ op = "FProp"
  /\ cls.ComputePredictions = "ok"
  /\ cls.ComputeLoss = "raises"
  /\ Len(calls) = 2
  /\ ret.kind = "raise"
  /\ ret.error = "SubclassError"

=============================================================================
